---------------------------- MODULE Spec2Model ----------------------------
(***************************************************************************)
(* Model of gitosis/my_fnmatch.py: shell-style filename matching in which  *)
(* a single '*' stops at '/', and a run of two or more '*' crosses it.     *)
(*                                                                         *)
(* A string is a sequence of one-character strings.  translate() is        *)
(* modelled character by character and yields the text of a regular        *)
(* expression; ReCompile parses that text the way Python's re module does  *)
(* (for the constructs translate can emit) and ReMatch runs the parsed     *)
(* program from the start of the candidate, as pattern.match() does.       *)
(***************************************************************************)
EXTENDS Integers, Sequences, FiniteSets, TLC

(***************************************************************************)
(* Characters.                                                             *)
(***************************************************************************)
NL == "\n"
BS == "\\"

\* Code points of the characters the model uses (ASCII).
Ord(c) ==
    CASE c = NL  -> 10
      [] c = "!" -> 33
      [] c = "*" -> 42
      [] c = "-" -> 45
      [] c = "." -> 46
      [] c = "/" -> 47
      [] c = "?" -> 63
      [] c = "A" -> 65
      [] c = "M" -> 77
      [] c = "R" -> 82
      [] c = "Y" -> 89
      [] c = "[" -> 91
      [] c = BS  -> 92
      [] c = "]" -> 93
      [] c = "^" -> 94
      [] c = "a" -> 97
      [] c = "b" -> 98
      [] c = "c" -> 99
      [] c = "d" -> 100
      [] c = "e" -> 101
      [] c = "m" -> 109
      [] c = "o" -> 111
      [] c = "p" -> 112
      [] c = "r" -> 114
      [] c = "s" -> 115
      [] c = "x" -> 120
      [] c = "y" -> 121
      [] c = "z" -> 122

IsAlnum(c) == (65 <= Ord(c) /\ Ord(c) <= 90) \/ (97 <= Ord(c) /\ Ord(c) <= 122)

\* str.lower() on one character.
LowerChar(c) ==
    CASE c = "A" -> "a"
      [] c = "M" -> "m"
      [] c = "R" -> "r"
      [] c = "Y" -> "y"
      [] OTHER   -> c

\* str.lower()
Lower(s) == [k \in 1..Len(s) |-> LowerChar(s[k])]

\* ntpath.normcase on one character: '/' becomes '\', then lower-cased.
NtNormChar(c) == IF c = "/" THEN BS ELSE LowerChar(c)

\* os.path.normcase: the identity on posix, ntpath.normcase otherwise.
Normcase(isPosix, s) ==
    IF isPosix THEN s ELSE [k \in 1..Len(s) |-> NtNormChar(s[k])]

(***************************************************************************)
(* translate(pat).  Indices are 1-based: the code's i (after i = i+1) is   *)
(* the model's i+1.                                                        *)
(***************************************************************************)

\* The inner while of the '*' branch: the first index >= i that holds no '*'.
RECURSIVE SkipStars(_, _)
SkipStars(pat, i) ==
    IF i <= Len(pat) /\ pat[i] = "*" THEN SkipStars(pat, i + 1) ELSE i

\* What a run of stars appends to res.
StarRegex(multistars) ==
    IF multistars THEN <<".", "*">> ELSE <<"[", "^", "/", "]", "*">>

\* The flag after a star run that began at i-1 and whose inner loop stopped
\* at k: the code sets it in the loop and never clears it.
MultistarsAfter(multistars, i, k) == multistars \/ k > i

\* The start of the search for the closing ']': one '!' and then one ']' are
\* stepped over.
ClassSearchStart(pat, i) ==
    LET j1 == IF i <= Len(pat) /\ pat[i] = "!" THEN i + 1 ELSE i
    IN  IF j1 <= Len(pat) /\ pat[j1] = "]" THEN j1 + 1 ELSE j1

\* while j < n and pat[j] != ']': j = j+1
RECURSIVE FindClose(_, _)
FindClose(pat, j) ==
    IF j <= Len(pat) /\ pat[j] # "]" THEN FindClose(pat, j + 1) ELSE j

\* stuff.replace('\\', '\\\\')
RECURSIVE EscapeBackslash(_)
EscapeBackslash(s) ==
    IF s = <<>> THEN <<>>
    ELSE (IF Head(s) = BS THEN <<BS, BS>> ELSE <<Head(s)>>)
         \o EscapeBackslash(Tail(s))

\* The class text between the brackets, from the class body pat[i:j].
ClassStuff(body) ==
    LET stuff == EscapeBackslash(body)
    IN  IF stuff[1] = "!" THEN <<"^">> \o Tail(stuff)
        ELSE IF stuff[1] = "^" THEN <<BS>> \o stuff
        ELSE stuff

\* re.escape on one character: alphanumerics stay, the rest get a backslash.
ReEscape(c) == IF IsAlnum(c) THEN <<c>> ELSE <<BS, c>>

RECURSIVE TranslateFrom(_, _, _, _)
TranslateFrom(pat, i, multistars, res) ==
    IF i > Len(pat) THEN res
    ELSE
      LET c == pat[i] IN
      IF c = "*" THEN
        LET k  == SkipStars(pat, i + 1)
            ms == MultistarsAfter(multistars, i + 1, k)
        IN  TranslateFrom(pat, k, ms, res \o StarRegex(ms))
      ELSE IF c = "?" THEN
        TranslateFrom(pat, i + 1, multistars, res \o <<".">>)
      ELSE IF c = "[" THEN
        LET j == FindClose(pat, ClassSearchStart(pat, i + 1)) IN
        IF j > Len(pat) THEN
          TranslateFrom(pat, i + 1, multistars, res \o <<BS, "[">>)
        ELSE
          TranslateFrom(pat, j + 1, multistars,
                        res \o <<"[">> \o ClassStuff(SubSeq(pat, i + 1, j - 1))
                            \o <<"]">>)
      ELSE
        TranslateFrom(pat, i + 1, multistars, res \o ReEscape(c))

\* The anchor translate appends to the result.
EndAnchor == <<"$">>

translate(pat) == TranslateFrom(pat, 1, FALSE, <<>>) \o EndAnchor


(***************************************************************************)
(* re.compile(res): the parse of the regular expression text.  A program   *)
(* is a sequence of instructions                                           *)
(*   [op |-> "literal", ch]          that character                        *)
(*   [op |-> "any"]                  '.': any character but a newline      *)
(*   [op |-> "in", neg, ranges]      a character set, ranges of code points*)
(*   [op |-> "at_end"]               '$': the end, or before a last newline*)
(* each with star |-> TRUE when a '*' follows it.  Only the constructs     *)
(* translate can emit are parsed; any other metacharacter is reported as   *)
(* not compilable.                                                         *)
(***************************************************************************)
Instr(op, ch, neg, ranges) ==
    [op |-> op, ch |-> ch, neg |-> neg, ranges |-> ranges, star |-> FALSE]

CompileError == [ok |-> FALSE, prog |-> <<>>]

\* A class member at src[i]: a backslash and the character after it are one
\* literal, any other character is itself.  len = 0: the text ended.
ClassItem(src, i) ==
    IF i > Len(src) THEN [len |-> 0, code |-> 0]
    ELSE IF src[i] = BS
      THEN IF i + 1 > Len(src) \/ IsAlnum(src[i + 1])
             THEN [len |-> 0, code |-> 0]
             ELSE [len |-> 2, code |-> Ord(src[i + 1])]
      ELSE [len |-> 1, code |-> Ord(src[i])]

\* A range lo-hi of a set: sre_parse refuses hi < lo ("bad character range").
RangeOk(lo, hi) == lo <= hi

\* The members of a set, from src[i] to the closing ']'.  first: no member
\* has been read yet, so a ']' here is a member.
RECURSIVE ParseSet(_, _, _, _)
ParseSet(src, i, first, ranges) ==
    LET it == ClassItem(src, i) IN
    IF it.len = 0 THEN [ok |-> FALSE, next |-> i, ranges |-> ranges]
    ELSE IF src[i] = "]" /\ ~first THEN
      [ok |-> TRUE, next |-> i + 1, ranges |-> ranges]
    ELSE
      LET j == i + it.len IN
      IF j <= Len(src) /\ src[j] = "-" THEN
        LET that == ClassItem(src, j + 1) IN
        IF that.len = 0 THEN [ok |-> FALSE, next |-> j, ranges |-> ranges]
        ELSE IF src[j + 1] = "]" THEN
          [ok |-> TRUE, next |-> j + 2,
           ranges |-> ranges \cup {<<it.code, it.code>>, <<Ord("-"), Ord("-")>>}]
        ELSE IF ~RangeOk(it.code, that.code) THEN
          [ok |-> FALSE, next |-> j, ranges |-> ranges]
        ELSE
          ParseSet(src, j + 1 + that.len, FALSE,
                   ranges \cup {<<it.code, that.code>>})
      ELSE
        ParseSet(src, j, FALSE, ranges \cup {<<it.code, it.code>>})

RECURSIVE ParseFrom(_, _, _)
ParseFrom(src, i, prog) ==
    IF i > Len(src) THEN [ok |-> TRUE, prog |-> prog]
    ELSE
      LET c == src[i] IN
      IF c = "*" THEN
        IF prog = <<>> \/ prog[Len(prog)].star \/ prog[Len(prog)].op = "at_end"
          THEN CompileError
          ELSE ParseFrom(src, i + 1,
                         [prog EXCEPT ![Len(prog)].star = TRUE])
      ELSE IF c = "." THEN
        ParseFrom(src, i + 1, Append(prog, Instr("any", "", FALSE, {})))
      ELSE IF c = "$" THEN
        ParseFrom(src, i + 1, Append(prog, Instr("at_end", "", FALSE, {})))
      ELSE IF c = BS THEN
        IF i + 1 > Len(src) \/ IsAlnum(src[i + 1]) THEN CompileError
        ELSE ParseFrom(src, i + 2,
                       Append(prog, Instr("literal", src[i + 1], FALSE, {})))
      ELSE IF c = "[" THEN
        LET neg == i + 1 <= Len(src) /\ src[i + 1] = "^"
            set == ParseSet(src, IF neg THEN i + 2 ELSE i + 1, TRUE, {})
        IN  IF ~set.ok THEN CompileError
            ELSE ParseFrom(src, set.next,
                           Append(prog, Instr("in", "", neg, set.ranges)))
      ELSE IF c \in {"?", "+", "{", "(", ")", "|", "^"} THEN CompileError
      ELSE ParseFrom(src, i + 1, Append(prog, Instr("literal", c, FALSE, {})))

ReCompile(src) == ParseFrom(src, 1, <<>>)

(***************************************************************************)
(* pattern.match(name): a match that starts at the first character; it    *)
(* need not reach the end unless the program says so.                      *)
(***************************************************************************)
\* '.' without DOTALL.
AnyMatches(c) == c # NL

CharMatches(ins, c) ==
    CASE ins.op = "literal" -> c = ins.ch
      [] ins.op = "any"     -> AnyMatches(c)
      [] ins.op = "in"      ->
           (\E r \in ins.ranges : r[1] <= Ord(c) /\ Ord(c) <= r[2]) # ins.neg
      [] OTHER              -> FALSE

\* '$' without MULTILINE: at the end, and also just before a final newline.
AtEnd(s, p) == p = Len(s) + 1 \/ (p = Len(s) /\ s[p] = NL)

RECURSIVE MatchFrom(_, _, _, _)
MatchFrom(prog, k, s, p) ==
    IF k > Len(prog) THEN TRUE
    ELSE
      LET ins == prog[k] IN
      IF ins.op = "at_end" THEN AtEnd(s, p) /\ MatchFrom(prog, k + 1, s, p)
      ELSE IF ins.star THEN
        \E q \in p..(Len(s) + 1) :
            /\ \A r \in p..(q - 1) : CharMatches(ins, s[r])
            /\ MatchFrom(prog, k + 1, s, q)
      ELSE
        /\ p <= Len(s)
        /\ CharMatches(ins, s[p])
        /\ MatchFrom(prog, k + 1, s, p + 1)

\* matcher.match(name) is not None
ReMatch(prog, s) == MatchFrom(prog, 1, s, 1)


(***************************************************************************)
(* The module's state: the process-wide _cache, and what the environment   *)
(* decides (whether os.path is posixpath).  argNames and argPat are the    *)
(* strings the callers of one run pass in; call records the last finished  *)
(* sequential call, th the progress of each concurrent caller.             *)
(***************************************************************************)
VARIABLES cache, posix, argName, argPat, call, th

vars == <<cache, posix, argName, argPat, call, th>>

\* Length bounds of the generated inputs.
MaxPatLen == 2
MaxNameLen == 2
MaxList == 2
MaxStarLen == 4
MaxLitLen == 2
MaxBodyLen == 2
NumThreads == 2

Threads == 1..NumThreads

\* All strings over alphabet of length at most n.
StringsUpTo(alphabet, n) == UNION {[1..k -> alphabet] : k \in 0..n}

RECURSIVE SeqToSet(_)
SeqToSet(s) == IF s = <<>> THEN {} ELSE {Head(s)} \cup SeqToSet(Tail(s))

(***************************************************************************)
(* The cache discipline shared by fnmatchcase and filter:                  *)
(*     if not pat in _cache:                                               *)
(*         res = translate(pat)                                            *)
(*         _cache[pat] = re.compile(res)                                   *)
(* re.compile raises on a text it cannot parse, and then nothing is        *)
(* stored.                                                                 *)
(***************************************************************************)
CacheStore(c, key, prog) ==
    [k \in DOMAIN c \cup {key} |-> IF k = key THEN prog ELSE c[k]]

\* The same with the matcher compiled from the lower-cased pattern.
LookupOrCompileLowered(c, pat) ==
    IF pat \in DOMAIN c THEN [raised |-> FALSE, cache |-> c, compiles |-> 0]
    ELSE LET m == ReCompile(translate(Lower(pat)))
         IN  IF m.ok
               THEN [raised |-> FALSE, cache |-> CacheStore(c, pat, m.prog),
                     compiles |-> 1]
               ELSE [raised |-> TRUE, cache |-> c, compiles |-> 1]

LookupOrCompile(c, pat) ==
    IF pat \in DOMAIN c THEN [raised |-> FALSE, cache |-> c, compiles |-> 0]
    ELSE LET m == ReCompile(translate(pat))
         IN  IF m.ok
               THEN [raised |-> FALSE, cache |-> CacheStore(c, pat, m.prog),
                     compiles |-> 1]
               ELSE [raised |-> TRUE, cache |-> c, compiles |-> 1]

NoCall ==
    [op |-> "none", name |-> <<>>, names |-> <<>>, pat |-> <<>>, key |-> <<>>,
     raised |-> FALSE, value |-> FALSE, list |-> <<>>, text |-> <<>>,
     before |-> <<>>, compiles |-> 0]

\* fnmatchcase(name, pat), entered as op (fnmatch delegates to it with its
\* lower-cased arguments).
MatchCall(op, name, pat, key, nameUsed) ==
    LET r == LookupOrCompile(cache, key) IN
    /\ cache' = r.cache
    /\ call' = [NoCall EXCEPT
                  !.op = op, !.name = name, !.pat = pat, !.key = key,
                  !.raised = r.raised,
                  !.value = IF r.raised THEN FALSE
                            ELSE ReMatch(r.cache[key], nameUsed),
                  !.before = cache, !.compiles = r.compiles]
    /\ UNCHANGED <<posix, argName, argPat, th>>

\* The arguments fnmatch hands to fnmatchcase.
FnmatchName(name) == Lower(name)
\* The pattern handed on as it came.
FnmatchPatNotLowered(pat) == pat
FnmatchPat(pat) == Lower(pat)

Fnmatch(name, pat) ==
    MatchCall("fnmatch", name, pat, FnmatchPat(pat), FnmatchName(name))

Fnmatchcase(name, pat) == MatchCall("fnmatchcase", name, pat, pat, name)

\* The names filter keeps: those whose (normalised) text the matcher accepts.
FilterKeep(prog, names) ==
    LET Keep(n) == ReMatch(prog, Normcase(posix, n)) IN SelectSeq(names, Keep)

Filter(names, pat) ==
    LET key == Normcase(posix, pat)
        r   == LookupOrCompile(cache, key)
    IN
    /\ cache' = r.cache
    /\ call' = [NoCall EXCEPT
                  !.op = "filter", !.names = names, !.pat = pat, !.key = key,
                  !.raised = r.raised,
                  !.list = IF r.raised THEN <<>>
                           ELSE FilterKeep(r.cache[key], names),
                  !.before = cache, !.compiles = r.compiles]
    /\ UNCHANGED <<posix, argName, argPat, th>>

Translate(pat) ==
    /\ call' = [NoCall EXCEPT !.op = "translate", !.pat = pat, !.key = pat,
                              !.text = translate(pat), !.before = cache]
    /\ UNCHANGED <<cache, posix, argName, argPat, th>>

\* The lists a run hands to filter: built from the run's name and its
\* lower-cased copy.
CallLists == StringsUpTo({argName, Lower(argName)}, MaxList)

Next ==
    \/ Fnmatch(argName, argPat)
    \/ Fnmatchcase(argName, argPat)
    \/ \E ns \in CallLists : Filter(ns, argPat)
    \/ Translate(argPat)

Idle == [pc |-> "idle", op |-> "none", key |-> <<>>, res |-> <<>>,
         obj |-> <<>>, raised |-> FALSE, value |-> FALSE, list |-> <<>>]

\* The state at import: an empty cache; the run's strings are one of inputs.
InitWith(inputs) ==
    /\ cache = <<>>
    /\ posix \in BOOLEAN
    /\ \E in \in inputs : argName = in[1] /\ argPat = in[2]
    /\ call = NoCall
    /\ th = [t \in Threads |-> Idle]

\* The module's own examples (its doctests) and the strings they are about.
MyRepos == <<"M", "y", "/", "R", "e", "p", "o", "s">>
Examples ==
    { <<MyRepos, <<"m", "*", "*">>>>,
      <<MyRepos, <<"M", "*", "*">>>>,
      <<MyRepos, <<"*", "m", "*", "*">>>>,
      <<MyRepos, <<"*", "Y", "*", "*", "s">>>>,
      <<MyRepos, <<"*", "Y", "*", "*", "x">>>>,
      <<MyRepos, <<"M", "y", "/", "R", "e", "p", "o">>>>,
      <<MyRepos, <<"m", "*">>>>,
      <<<<"a", "b", "c">>, <<"a", "b", "?">>>>,
      <<<<"a">>, <<"[", "z", "-", "a", "]">>>>,
      <<<<"A">>, <<"[", "!", "a", "]">>>>,
      <<<<"a">>, <<"[", "A", "]">>>>,
      <<<<"A", "/", "a">>, <<"A", "*", "/", "?">>>>,
      <<<<"a", "/", "A">>, <<"*", "*", "/", "*">>>> }

MixedInputs ==
    (StringsUpTo({"A", "/"}, MaxNameLen) \X StringsUpTo({"A", "*"}, MaxPatLen))
    \cup Examples

Init == InitWith(MixedInputs)

Spec == Init /\ [][Next]_vars


(***************************************************************************)
(* Other inputs: star patterns, wildcard-free patterns, bracket patterns.  *)
(***************************************************************************)
StarInputs ==
    (StringsUpTo({"a", "/"}, MaxNameLen)
        \X StringsUpTo({"*", "a", "/"}, MaxStarLen))
    \cup { <<<<"a", "/", "b">>, <<"a", "*", "b">>>>,
           <<<<"a", "b">>, <<"a", "*", "b">>>>,
           <<<<"a", "/", "b">>, <<"a", "*", "*", "b">>>> }

InitStar == InitWith(StarInputs)
SpecStar == InitStar /\ [][Next]_vars

LiteralInputs ==
    (StringsUpTo({"a", "b", NL}, MaxLitLen + 1)
        \X StringsUpTo({"a", "b", ".", NL}, MaxLitLen))
    \cup { <<<<"a", "b", "c">>, <<"a", "b">>>> }

InitLiteral == InitWith(LiteralInputs)
SpecLiteral == InitLiteral /\ [][Next]_vars

\* Bracket patterns: '[' and a body, closed by ']' or left open.
ClassBodies == StringsUpTo({"!", "]", "^", "a", "-", BS}, MaxBodyLen)
ClassPatterns ==
    {<<"[">> \o b : b \in ClassBodies}
    \cup {<<"[">> \o b \o <<"]">> : b \in ClassBodies}
    \cup {<<"a", "[", "b">>, <<"[", "z", "-", "a", "]">>}
ClassNames ==
    StringsUpTo({"a", "^", BS, NL}, MaxBodyLen)
    \cup {<<"[", "]">>, <<"[", "!", "]">>, <<"[", "]", NL>>, <<"[", "!", "]", NL>>,
          <<"a", "[", "b">>, <<"!">>, <<"]">>, <<"-">>, <<"b">>}
ClassInputs == ClassNames \X ClassPatterns

InitClass == InitWith(ClassInputs)
SpecClass == InitClass /\ [][Next]_vars

(***************************************************************************)
(* Concurrent callers.  The code takes no lock: the membership test, the   *)
(* translation, the compilation, the store into _cache and the read of    *)
(* _cache[pat] are separate steps of a caller, each atomic (a dict         *)
(* operation, or work on the caller's own locals).                         *)
(***************************************************************************)
\* The list a concurrent filter call is given.
ConcList == <<argName, Lower(argName)>>

\* The call begins; filter normalises its pattern first.
Begin(t, op) ==
    /\ th[t].pc = "idle"
    /\ th' = [th EXCEPT ![t] =
                [Idle EXCEPT !.pc = "test", !.op = op,
                             !.key = IF op = "filter"
                                       THEN Normcase(posix, argPat)
                                       ELSE argPat]]
    /\ UNCHANGED <<cache, posix, argName, argPat, call>>

\* if not pat in _cache
Test(t) ==
    /\ th[t].pc = "test"
    /\ th' = [th EXCEPT ![t].pc =
                IF th[t].key \in DOMAIN cache THEN "read" ELSE "translate"]
    /\ UNCHANGED <<cache, posix, argName, argPat, call>>

\* res = translate(pat)
DoTranslate(t) ==
    /\ th[t].pc = "translate"
    /\ th' = [th EXCEPT ![t].pc = "compile", ![t].res = translate(th[t].key)]
    /\ UNCHANGED <<cache, posix, argName, argPat, call>>

\* re.compile(res): the finished matcher, held by the caller; or it raises.
DoCompile(t) ==
    /\ th[t].pc = "compile"
    /\ \E m \in {ReCompile(th[t].res)} :
         th' = [th EXCEPT ![t].pc = IF m.ok THEN "store" ELSE "done",
                          ![t].obj = m.prog,
                          ![t].raised = ~m.ok]
    /\ UNCHANGED <<cache, posix, argName, argPat, call>>

\* An entry published before its matcher is built.
StoredUnfinished(obj) == <<>>
\* What the store puts into the cache: the matcher the caller compiled.
Stored(obj) == obj

\* _cache[pat] = <the compiled matcher>
Store(t) ==
    /\ th[t].pc = "store"
    /\ cache' = CacheStore(cache, th[t].key, Stored(th[t].obj))
    /\ th' = [th EXCEPT ![t].pc = "read"]
    /\ UNCHANGED <<posix, argName, argPat, call>>

\* _cache[pat].match, applied: a KeyError if the key is not there.
Read(t) ==
    /\ th[t].pc = "read"
    /\ IF th[t].key \notin DOMAIN cache
         THEN th' = [th EXCEPT ![t].pc = "done", ![t].raised = TRUE]
         ELSE th' = [th EXCEPT
                       ![t].pc = "done",
                       ![t].value = th[t].op = "fnmatchcase"
                                    /\ ReMatch(cache[th[t].key], argName),
                       ![t].list = IF th[t].op = "filter"
                                     THEN FilterKeep(cache[th[t].key], ConcList)
                                     ELSE <<>>]
    /\ UNCHANGED <<cache, posix, argName, argPat, call>>

\* The call returns; the caller may call again.
Return(t) ==
    /\ th[t].pc = "done"
    /\ th' = [th EXCEPT ![t] = Idle]
    /\ UNCHANGED <<cache, posix, argName, argPat, call>>

NextConc ==
    \E t \in Threads :
        \/ Begin(t, "fnmatchcase")
        \/ Begin(t, "filter")
        \/ Test(t)
        \/ DoTranslate(t)
        \/ DoCompile(t)
        \/ Store(t)
        \/ Read(t)
        \/ Return(t)

ConcInputs ==
    { <<<<"A", "/", "a">>, <<"A", "*", "*">>>>,
      <<<<"A", "/", "a">>, <<"a", "*">>>>,
      <<<<"a", "/">>, <<"*", "/">>>>,
      <<<<"a">>, <<"[", "!", "b", "]">>>>,
      <<<<"a">>, <<"[", "z", "-", "a", "]">>>>,
      <<MyRepos, <<"M", "*", "*">>>> }

InitConc == InitWith(ConcInputs)
SpecConc == InitConc /\ [][NextConc]_vars


(***************************************************************************)
(* Properties.                                                             *)
(***************************************************************************)
\* fnmatchcase(name, pat) computed on an empty cache.
Compiled(pat) == ReCompile(translate(pat))
Raises(pat) == ~Compiled(pat).ok
Accepts(name, pat) == Compiled(pat).ok /\ ReMatch(Compiled(pat).prog, name)

MatchOps == {"fnmatch", "fnmatchcase", "filter"}

\* The glob reading of a pattern made of star runs, '?' and literals: a run
\* of one '*' takes characters other than '/', a longer run takes any.
RECURSIVE GlobFrom(_, _, _, _)
GlobFrom(pat, i, s, p) ==
    IF i > Len(pat) THEN p = Len(s) + 1
    ELSE IF pat[i] = "*" THEN
      LET k == SkipStars(pat, i + 1) IN
      \E q \in p..(Len(s) + 1) :
          /\ (k = i + 1) => \A r \in p..(q - 1) : s[r] # "/"
          /\ GlobFrom(pat, k, s, q)
    ELSE
      /\ p <= Len(s)
      /\ pat[i] = "?" \/ pat[i] = s[p]
      /\ GlobFrom(pat, i + 1, s, p + 1)

HasNoBracket(pat) == \A i \in 1..Len(pat) : pat[i] # "["

\* C1: fnmatchcase(S, P) is true only if every run of exactly one '*' in P,
\* wherever it stands, is matched against a part of S that holds no '/';
\* fnmatchcase("a/b", "a*b") is false, fnmatchcase("ab", "a*b") and
\* fnmatchcase("a/b", "a**b") are true.
C1_SingleStarStopsAtSlash ==
    (call.op = "fnmatchcase" /\ HasNoBracket(call.pat)) =>
        /\ call.value => GlobFrom(call.pat, 1, call.name, 1)
        /\ (call.name = <<"a", "/", "b">> /\ call.pat = <<"a", "*", "b">>)
              => ~call.value
        /\ (call.name = <<"a", "b">> /\ call.pat = <<"a", "*", "b">>)
              => call.value
        /\ (call.name = <<"a", "/", "b">> /\ call.pat = <<"a", "*", "*", "b">>)
              => call.value

\* A pattern with no wildcard token: no '*', no '?', and no '[' for which
\* the search for a closing ']' succeeds.
IsLiteralPattern(pat) ==
    \A i \in 1..Len(pat) :
        /\ pat[i] \notin {"*", "?"}
        /\ pat[i] = "[" =>
             FindClose(pat, ClassSearchStart(pat, i + 1)) > Len(pat)

\* C2: for a pattern P with no wildcard token and any candidate S (the empty
\* string and strings ending in a newline included), fnmatchcase(S, P) is
\* S = P: nothing longer, shorter or different matches.
C2_LiteralPatternMatchesOnlyItself ==
    (call.op = "fnmatchcase" /\ IsLiteralPattern(call.pat)) =>
        /\ ~call.raised
        /\ call.value = (call.name = call.pat)

\* C3: fnmatch, fnmatchcase and filter never end in an error, whatever the
\* pattern and the candidates: every bracket construct translate hands to
\* the engine as a character class compiles.
C3_NoCallRaises ==
    (call.op \in MatchOps) => ~call.raised

\* C4: every cache entry holds the matcher compiled from translate(its key),
\* so the result of fnmatchcase(S, P) is the same whether P was absent from
\* the cache or put there by an earlier call of any entry point.
C4_CacheHoldsCompiledTranslation ==
    /\ \A k \in DOMAIN cache : ~Raises(k) /\ cache[k] = Compiled(k).prog
    /\ call.op = "fnmatchcase" =>
          /\ call.raised = Raises(call.pat)
          /\ call.value = Accepts(call.name, call.pat)

\* C4 witness: a fnmatchcase call that found its pattern already cached
\* beside another key, and matched.
C4_Witness ==
    /\ call.op = "fnmatchcase"
    /\ call.pat \in DOMAIN call.before
    /\ Cardinality(DOMAIN cache) >= 2
    /\ call.value

\* C5: the set of cache keys never shrinks and no stored matcher is replaced;
\* a call whose (normalised) pattern is already a key leaves the cache as it
\* was, a call whose pattern is absent adds exactly that key, and translate
\* changes nothing.
C5_CacheGrowsByTheCalledKey ==
    (call.op # "none") =>
        /\ \A k \in DOMAIN call.before :
               k \in DOMAIN cache /\ cache[k] = call.before[k]
        /\ (call.op = "translate" \/ call.key \in DOMAIN call.before)
               => cache = call.before
        /\ (call.op \in MatchOps /\ call.key \notin DOMAIN call.before)
               => DOMAIN cache = DOMAIN call.before \cup {call.key}

\* C7: on posix, filter(names, pat) returns, in order and with duplicates,
\* exactly the names n for which fnmatchcase(n, pat) is true, and compiles at
\* most once in the call; filter(["abc","abd","xyz"], "ab?") is ["abc","abd"].
C7_FilterIsTheMatchingSubsequence ==
    (call.op = "filter" /\ posix) =>
        /\ ~call.raised
        /\ LET Keep(n) == Accepts(n, call.pat)
           IN  call.list = SelectSeq(call.names, Keep)
        /\ call.compiles <= 1
        /\ call.compiles = 1 => call.key \notin DOMAIN call.before

\* C8: fnmatch(S, P) is fnmatchcase(lower(S), lower(P)), and the only key it
\* can add to the cache is lower(P); fnmatch("My/Repos", "m**") is true,
\* fnmatchcase("My/Repos", "m**") is false, fnmatchcase("My/Repos", "M**")
\* is true.
C8_FnmatchIsFnmatchcaseOfLowered ==
    /\ call.op = "fnmatch" =>
          /\ call.raised = Raises(Lower(call.pat))
          /\ call.value = Accepts(Lower(call.name), Lower(call.pat))
          /\ DOMAIN cache \ DOMAIN call.before \subseteq {Lower(call.pat)}
    /\ (call.name = MyRepos /\ call.pat = <<"m", "*", "*">>) =>
          /\ call.op = "fnmatch" => call.value
          /\ call.op = "fnmatchcase" => ~call.value
    /\ (call.name = MyRepos /\ call.pat = <<"M", "*", "*">>
          /\ call.op = "fnmatchcase") => call.value

\* C8 witness: fnmatch with a pattern that has an upper-case letter matched,
\* and added the lower-cased pattern, not the pattern, to the cache.
C8_Witness ==
    /\ call.op = "fnmatch"
    /\ call.pat # Lower(call.pat)
    /\ call.name # Lower(call.name)
    /\ call.value
    /\ Lower(call.pat) \in DOMAIN cache \ DOMAIN call.before
    /\ call.pat \notin DOMAIN cache

\* The '[' at index i has no closing ']' by the code's search.
UnterminatedAt(pat, i) ==
    pat[i] = "[" /\ FindClose(pat, ClassSearchStart(pat, i + 1)) > Len(pat)

\* The regular expression text of a run of literal characters.
RECURSIVE LiteralText(_)
LiteralText(s) ==
    IF s = <<>> THEN <<>> ELSE ReEscape(Head(s)) \o LiteralText(Tail(s))

\* C9: a '[' with no closing ']' (searched for after one optional '!' and
\* then one optional ']') is translated to a literal '[' and the scan goes
\* on right after it, the rest being read as ordinary tokens;
\* fnmatchcase("a[b", "a[b") is true, and the patterns "[]" and "[!]" match
\* only the strings "[]" and "[!]".
C9_UnterminatedClassIsLiteral ==
    /\ call.op = "translate" =>
          \A i \in 1..Len(call.pat) :
              (UnterminatedAt(call.pat, i)
                  /\ IsLiteralPattern(SubSeq(call.pat, 1, i - 1))
                  /\ HasNoBracket(SubSeq(call.pat, 1, i - 1)))
              => call.text = LiteralText(SubSeq(call.pat, 1, i - 1))
                               \o <<BS, "[">>
                               \o translate(SubSeq(call.pat, i + 1, Len(call.pat)))
    /\ call.op = "fnmatchcase" =>
          /\ (call.pat = <<"a", "[", "b">> /\ call.name = call.pat) => call.value
          /\ call.pat \in {<<"[", "]">>, <<"[", "!", "]">>}
                => (call.value = (call.name = call.pat))

\* The pattern is one terminated class '[body]' and nothing else.
IsOneClass(pat) ==
    /\ Len(pat) >= 3
    /\ pat[1] = "["
    /\ FindClose(pat, ClassSearchStart(pat, 2)) = Len(pat)

\* C10: a class is negated by a leading '!' and by nothing else: '[body]'
\* matches exactly one character, one that is not among the members after
\* the '!' if body starts with '!', one that is among the members otherwise;
\* a leading '^' and a backslash are members.  "[!a]" matches any single
\* character but 'a', "[a]" only "a", "[^a]" only "^" and "a".
C10_NegationOnlyByBang ==
    (call.op = "fnmatchcase" /\ IsOneClass(call.pat)
        /\ \A i \in 1..Len(call.pat) : call.pat[i] # "-") =>
        LET body    == SubSeq(call.pat, 2, Len(call.pat) - 1)
            negated == body[1] = "!"
            members == SeqToSet(IF negated THEN Tail(body) ELSE body)
        IN  /\ ~call.raised
            /\ call.value = (/\ Len(call.name) = 1
                             /\ (call.name[1] \in members) # negated)

\* C6: under every interleaving of concurrent fnmatchcase and filter calls,
\* no cache entry is ever anything but the finished matcher of its key, no
\* call fails on its read of the cache, and every call returns what it
\* returns when run alone, also when two callers compile the same pattern
\* and one store overwrites the other.
C6_InterleavedCallsAgreeWithSequential ==
    /\ \A k \in DOMAIN cache : ~Raises(k) /\ cache[k] = Compiled(k).prog
    /\ \A t \in Threads :
          /\ th[t].pc = "read" => th[t].key \in DOMAIN cache
          /\ th[t].pc = "done" =>
                /\ th[t].raised = Raises(th[t].key)
                /\ th[t].op = "fnmatchcase" =>
                      th[t].value = Accepts(argName, th[t].key)
                /\ th[t].op = "filter" =>
                      LET Keep(n) == Accepts(Normcase(posix, n), th[t].key)
                      IN  th[t].list = SelectSeq(ConcList, Keep)

\* C6 witness: two callers missed the same key, each compiled and stored its
\* own matcher, and one of them has returned a match.
C6_Witness ==
    \E t1, t2 \in Threads :
        /\ t1 # t2
        /\ th[t1].key = th[t2].key
        /\ th[t1].obj # <<>> /\ th[t2].obj # <<>>
        /\ th[t1].pc = "done" /\ th[t1].op = "fnmatchcase" /\ th[t1].value
        /\ th[t2].pc \in {"read", "done"}

=============================================================================
